---------------------------- MODULE Spec2Model ----------------------------
(***************************************************************************)
(* Session / identity resolution of gisquick-server (package auth):        *)
(* AuthService.GetUser, GetSessionInfo, Authenticate, LoginUser and        *)
(* LogoutUser over the Redis session store, the accounts repository and    *)
(* the two ttlcache instances built in NewAuthService.                     *)
(*                                                                         *)
(* One worker per request.  A handler is cut into steps at its blocking    *)
(* calls (store.Get/Set/Del, accounts.GetByUsername/GetByEmail/Update);    *)
(* the in-memory code after a blocking call belongs to that call's step.   *)
(* Time is a counter of ticks; durations are given in ticks.               *)
(***************************************************************************)
EXTENDS Integers, Sequences, FiniteSets, TLC

\* ------------------------------------------------------------------ bounds
MaxTime == 3

MaxCalls == 1

\* GetUser calls of one request where a handler calls it again.
MaxRepeat == 2

\* Blocking calls that fail, and changes an administrator makes, in one run.
MaxFaults == 1

MaxChanges == 1

Reqs == {1, 2, 3}

\* ------------------------------------------------------- program constants
\* ttlcache.WithTTL(45*time.Second) of both caches, in ticks.
CacheTTL == 1

\* AuthService.expiration, the configured session lifetime, in ticks.
Expiration == 2

\* handleFirebaseLogin: expiration := 62 * time.Minute, in ticks.
FirebaseExpiration == 3

\* ------------------------------------------------------------- the inputs
\* carol shares her e-mail address with bob.
Users == {"alice", "bob", "carol"}

Password(u) == IF u = "alice" THEN "s3cret" ELSE "hunter2"

\* uuid.NewV4 values, in the order they are drawn; none is drawn twice.
SidSeq == <<"s1", "s2", "s3">>

Sids == {SidSeq[i] : i \in 1..Len(SidSeq)}

\* Authorization header values a client sends, with what len(auth) > 6,
\* auth[:5], base64.StdEncoding.DecodeString(auth[6:]) and SplitN(.., ":", 2)
\* make of each.  b64 = FALSE: the payload does not decode; cred has one
\* element when the decoded payload holds no colon.
HeaderTable ==
    [h \in {"Basic YWxpY2U6czNjcmV0", "basic YWxpY2U6czNjcmV0", "Basic YWxpY2U6d3Jvbmc=",
            "Bearer YWxpY2U6czNjcmV0", "Basic #", "Basic YWxpY2U=", "Basic",
            "Basic Ym9iOmh1bnRlcjI="} |->
        CASE h = "Basic YWxpY2U6czNjcmV0" ->
               [long |-> TRUE, prefix |-> "Basic", b64 |-> TRUE, cred |-> <<"alice", "s3cret">>]
          [] h = "Basic Ym9iOmh1bnRlcjI=" ->
               [long |-> TRUE, prefix |-> "Basic", b64 |-> TRUE, cred |-> <<"bob", "hunter2">>]
          [] h = "basic YWxpY2U6czNjcmV0" ->
               [long |-> TRUE, prefix |-> "basic", b64 |-> TRUE, cred |-> <<"alice", "s3cret">>]
          [] h = "Basic YWxpY2U6d3Jvbmc=" ->
               [long |-> TRUE, prefix |-> "Basic", b64 |-> TRUE, cred |-> <<"alice", "wrong">>]
          [] h = "Bearer YWxpY2U6czNjcmV0" ->
               [long |-> TRUE, prefix |-> "Beare", b64 |-> TRUE, cred |-> <<"alice", "s3cret">>]
          [] h = "Basic #" ->
               [long |-> TRUE, prefix |-> "Basic", b64 |-> FALSE, cred |-> <<>>]
          [] h = "Basic YWxpY2U=" ->
               [long |-> TRUE, prefix |-> "Basic", b64 |-> TRUE, cred |-> <<"alice">>]
          [] OTHER ->
               [long |-> FALSE, prefix |-> "Basic", b64 |-> FALSE, cred |-> <<>>]]

Headers == DOMAIN HeaderTable

\* Login forms of handleLogin: <<username, password>>.
Logins == {"alice", "bob", "carol", "alice@x.com", "bob@x.com", "%@x.com", "ALICE@x.com"}

Passwords == {"s3cret", "hunter2", "wrong"}

Forms == {<<login, password>> : login \in Logins, password \in Passwords}

\* Firebase ID tokens a client posts, with what client.VerifyIDToken makes of
\* each: valid = FALSE: it returns an error; email: token.Claims["email"].
\* No account has dave's address.
TokenTable ==
    [t \in {"forged", "token-alice", "token-bob", "token-dave"} |->
        CASE t = "token-alice" -> [valid |-> TRUE, email |-> "alice@x.com"]
          [] t = "token-bob" -> [valid |-> TRUE, email |-> "bob@x.com"]
          [] t = "token-dave" -> [valid |-> TRUE, email |-> "dave@x.com"]
          [] OTHER -> [valid |-> FALSE, email |-> ""]]

\* Payloads of handleFirebaseLogin: <<idToken>>.
Payloads == {<<t>> : t \in DOMAIN TokenTable}

\* ------------------------------------------------------------- identities
\* var AnonymousUser = domain.User{IsGuest: true}
AnonymousUser ==
    [Username |-> "", IsSuperuser |-> FALSE, IsAuthenticated |-> FALSE, IsGuest |-> TRUE]

\* The zero value of domain.User (var user domain.User, never assigned).
ZeroUser ==
    [Username |-> "", IsSuperuser |-> FALSE, IsAuthenticated |-> FALSE, IsGuest |-> FALSE]

ZeroAccount ==
    [Username |-> "", Active |-> FALSE, Superuser |-> FALSE, LastLogin |-> -1]

AccountToUser(account) ==
    [Username |-> account.Username, IsSuperuser |-> account.Superuser,
     IsAuthenticated |-> TRUE, IsGuest |-> FALSE]

VARIABLES
    now,            \* the clock
    accounts,       \* the users table: username -> row
    changedAt,      \* history: when each account was last changed by an administrator
    store,          \* the Redis session store: session id -> [present, user, exp]
    issued,         \* how many session ids uuid.NewV4 has drawn
    cache,          \* AuthService.cache: username -> item
    basicAuthCache, \* AuthService.basicAuthCache: Authorization header -> item
    sessions,       \* history: every session id LoginUser stored -> [user, exp]
    req,            \* the requests: echo.Context, handler position, what each returned
    faults,         \* how many blocking calls have failed
    changes         \* how many changes an administrator has made

vars == <<now, accounts, changedAt, store, issued, cache, basicAuthCache,
          sessions, req, faults, changes>>

\* ------------------------------------------------------ accounts repository
NoRow == [exists |-> FALSE, active |-> FALSE, superuser |-> FALSE, lastLogin |-> -1]

ToAccount(accts, name) ==
    [Username |-> name, Active |-> accts[name].active,
     Superuser |-> accts[name].superuser, LastLogin |-> accts[name].lastLogin]

\* A find that takes sql.ErrNoRows for an empty row.
GetByUsernameNoRows(accts, name) ==
    [err |-> "nil",
     account |-> IF name \in Users /\ accts[name].exists
                 THEN ToAccount(accts, name) ELSE ZeroAccount]

\* AccountsRepository.GetByUsername / find: one row or ErrAccountNotFound.
GetByUsername(accts, name) ==
    IF name \in Users /\ accts[name].exists
    THEN [err |-> "nil", account |-> ToAccount(accts, name)]
    ELSE [err |-> "ErrAccountNotFound", account |-> ZeroAccount]

\* AccountsRepository.Update: UPDATE users SET ... WHERE username = :username
\* writes every column of the row from the account value it is given.
UpdateRow(accts, account) ==
    IF account.Username \in Users /\ accts[account.Username].exists
    THEN [accts EXCEPT ![account.Username] =
            [exists |-> TRUE, active |-> account.Active,
             superuser |-> account.Superuser, lastLogin |-> account.LastLogin]]
    ELSE accts

\* ------------------------------------------------------------ session store
NoEntry == [present |-> FALSE, user |-> "", exp |-> 0]

\* A store whose keys were set without an expiration.
StoreLiveForever(e, t) == e.present

\* Redis serves a key until its expiry time has passed.
StoreLive(e, t) == e.present /\ t <= e.exp

\* A Get that answers from the last value written under the key.
StoreGetStale(st, sid, t) ==
    IF sid \in DOMAIN st /\ st[sid].user # ""
    THEN [err |-> "nil", data |-> st[sid].user]
    ELSE [err |-> "invalid", data |-> ""]

\* RedisSessionStore.Get: the value, or ErrInvalidSession for redis.Nil.
StoreGet(st, sid, t) ==
    IF sid \in DOMAIN st /\ StoreLive(st[sid], t)
    THEN [err |-> "nil", data |-> st[sid].user]
    ELSE [err |-> "invalid", data |-> ""]

StoreSet(st, sid, data, expiration, t) ==
    [st EXCEPT ![sid] = [present |-> TRUE, user |-> data, exp |-> t + expiration]]

\* A Del that removes nothing.
StoreDelNothing(st, sid) == st

\* A Del that removes every session of the account the id belongs to.
StoreDelUser(st, sid) ==
    IF sid \in DOMAIN st
    THEN [x \in DOMAIN st |-> IF st[x].user = st[sid].user THEN NoEntry ELSE st[x]]
    ELSE st

\* RedisSessionStore.Del
StoreDel(st, sid) ==
    IF sid \in DOMAIN st THEN [st EXCEPT ![sid] = NoEntry] ELSE st

\* ------------------------------------------------------------------ ttlcache
\* An item is [val, exp, born]: its value, its expiresAt, and (history) the
\* time of the Set that stored it.
\* Item.isExpiredUnsafe: expiresAt.Before(time.Now()).
ItemLive(item, t) == ~(item.exp < t)

\* Cache.Get without a loader: the item, or nil when absent or expired.
CacheHit(c, key, t) == key \in DOMAIN c /\ ItemLive(c[key], t)

\* A cache that touches on hit: a hit restarts the item's life.
OnHitTouch(item, t) == [item EXCEPT !.exp = t + CacheTTL]

\* WithDisableTouchOnHit: a hit leaves the item as it is.
OnHit(item, t) == item

CacheRead(c, key, t) ==
    [k \in DOMAIN c |-> IF k = key THEN OnHit(c[k], t) ELSE c[k]]

\* A Set that stores nothing.
CacheSetNothing(c, key, value, t) == c

\* Cache.Set(key, value, ttlcache.DefaultTTL).
CacheSet(c, key, value, t) ==
    [k \in DOMAIN c \cup {key} |->
        IF k = key THEN [val |-> value, exp |-> t + CacheTTL, born |-> t] ELSE c[k]]

\* ------------------------------------------------------------- Authenticate
Email(u) == IF u = "alice" THEN "alice@x.com" ELSE "bob@x.com"

\* A login test that finds no "@".
HasAtNever(login) == FALSE

\* strings.Contains(login, "@")
HasAt(login) == login \in {"alice@x.com", "bob@x.com", "ALICE@x.com", "%@x.com"}

\* SQL LIKE: "%" in the pattern matches any run of characters, the rest
\* compares by equality, case included.
Like(value, pattern) ==
    IF pattern = "%@x.com" THEN value \in {"alice@x.com", "bob@x.com"}
    ELSE value = pattern

\* AccountsRepository.GetByEmail: exactly one matching row.
GetByEmail(accts, email) ==
    LET rows == {u \in Users : accts[u].exists /\ Like(Email(u), email)} IN
    IF rows = {} THEN [err |-> "ErrAccountNotFound", account |-> ZeroAccount]
    ELSE IF Cardinality(rows) > 1 THEN [err |-> "ambiguous", account |-> ZeroAccount]
    ELSE [err |-> "nil", account |-> ToAccount(accts, CHOOSE u \in rows : TRUE)]

CheckPassword(account, password) ==
    account.Username \in Users /\ password = Password(account.Username)

\* AuthService.Authenticate; dbok = FALSE: the repository query itself fails.
\* via (history): the repository method the call used.
Authenticate(accts, login, password, dbok) ==
    LET via == IF HasAt(login) THEN "email" ELSE "username"
        found == IF HasAt(login) THEN GetByEmail(accts, login)
                 ELSE GetByUsername(accts, login)
        ret(err, account) == [err |-> err, account |-> account, via |-> via] IN
    IF ~dbok THEN ret("db", ZeroAccount)
    ELSE IF found.err # "nil" THEN ret(found.err, ZeroAccount)
    ELSE IF ~found.account.Active THEN ret("ErrUserNotFound", ZeroAccount)
    ELSE IF ~CheckPassword(found.account, password) THEN ret("ErrInvalidPassword", ZeroAccount)
    ELSE ret("nil", found.account)

\* ------------------------------------------------------------------ cookies
\* The http.Cookie of LoginUserWithExpiration; Expires and MaxAge are -1 and 0
\* where the code leaves them unset.
SessionCookie(sessionid, expires) ==
    [Name |-> "gq_session", Path |-> "/", SameSite |-> "Lax", HttpOnly |-> TRUE,
     Value |-> sessionid, Expires |-> expires, MaxAge |-> 0]

\* The http.Cookie of LogoutUser.
ClearingCookie ==
    [Name |-> "gq_session", Path |-> "/", SameSite |-> "Lax", HttpOnly |-> TRUE,
     Value |-> "", Expires |-> -1, MaxAge |-> -1]

\* ----------------------------------------------------------------- requests
\* A request: the echo.Context (cookie, Authorization header, form, the
\* "session" and "user" values of c.Get/c.Set, the Set-Cookie it answers),
\* the handler's position pc, and history of what the handler did:
\*   rets       what each GetUser call returned, in order
\*   at         when the latest GetUser call started
\*   prior      the requests that had been answered when this one arrived
\*   storeGets, loads, auths, idLookups
\*              calls of store.Get, of the loader's GetByUsername, of
\*              Authenticate and of s.cache.Get made for this request
\*   hit, lag   the latest call was served from a cache item, lag after its Set
\*   dup        a request whose load of the same username was in flight when
\*              this one missed (0: none)
\*   live       the store held the session, unexpired, when store.Get ran
\*   unexpired  the session's lifetime had not passed when store.Get ran
\*   loaded     how the loader ended in the latest call ("": it did not run)
\*   there      the account was in the table, and the query answered, when
\*              the loader ran
\*   fault      a blocking call of this request failed
\*   delOk      store.Del of the request's cookie succeeded
\*   authd      what handleLogin's Authenticate, or handleFirebaseLogin's
\*              GetByEmail, returned (<<>>: not called)
\*   dels       calls of store.Del made for this request
\* setCookie is the gq_session cookie the response ends up setting ("none",
\* "cleared" or the session id); setCookies are the http.SetCookie calls in
\* order.
NewReq ==
    [pc |-> "new", kind |-> "none", cookie |-> "", auth |-> "", form |-> <<>>,
     session |-> <<>>, user |-> <<>>, setCookie |-> "none", rets |-> <<>>,
     account |-> ZeroAccount, sid |-> "", status |-> "",
     storeGets |-> 0, loads |-> 0, auths |-> 0, idLookups |-> 0,
     at |-> 0, prior |-> {}, hit |-> FALSE, lag |-> 0, dup |-> 0,
     live |-> FALSE, unexpired |-> FALSE, loaded |-> "", there |-> FALSE,
     fault |-> FALSE,
     delOk |-> FALSE, authd |-> <<>>, dels |-> 0, setCookies |-> <<>>]

NoItem == [val |-> ZeroUser, exp |-> 0, born |-> 0]

\* The service after NewAuthService: both caches empty, no request yet.
\* logins = 0: no session in the store; logins = 1: alice has logged in at
\* time 0 (LoginUser has stored s1 and set her LastLogin) and holds the cookie;
\* logins = 2: bob has done the same after her, with s2.
InitWith(logins) ==
    LET owner(s) == IF s = SidSeq[1] THEN "alice" ELSE "bob"
        held == {SidSeq[i] : i \in 1..logins} IN
    /\ now = 0
    /\ accounts = [u \in Users |->
                     [exists |-> TRUE, active |-> TRUE, superuser |-> FALSE,
                      lastLogin |-> IF \E s \in held : owner(s) = u THEN 0 ELSE -1]]
    /\ changedAt = [u \in Users |-> 0]
    /\ store = [s \in Sids |->
                  IF s \in held
                  THEN [present |-> TRUE, user |-> owner(s), exp |-> Expiration]
                  ELSE NoEntry]
    /\ sessions = [s \in Sids |->
                  IF s \in held
                  THEN [user |-> owner(s), exp |-> Expiration]
                  ELSE [user |-> "", exp |-> 0]]
    /\ issued = logins
    /\ cache = [k \in {} |-> NoItem]
    /\ basicAuthCache = [k \in {} |-> NoItem]
    /\ req = [r \in Reqs |-> NewReq]
    /\ faults = 0
    /\ changes = 0

Init == \E logins \in {0, 1} : InitWith(logins)

InitLoggedIn == InitWith(1)

InitTwoLoggedIn == InitWith(2)

\* The service over any accounts table: each account absent, inactive or
\* active.
InitAuth ==
    /\ accounts \in [Users -> {NoRow,
                               [exists |-> TRUE, active |-> FALSE, superuser |-> FALSE,
                                lastLogin |-> -1],
                               [exists |-> TRUE, active |-> TRUE, superuser |-> FALSE,
                                lastLogin |-> -1]}]
    /\ now = 0
    /\ changedAt = [u \in Users |-> 0]
    /\ store = [s \in Sids |-> NoEntry]
    /\ sessions = [s \in Sids |-> [user |-> "", exp |-> 0]]
    /\ issued = 0
    /\ cache = [k \in {} |-> NoItem]
    /\ basicAuthCache = [k \in {} |-> NoItem]
    /\ req = [r \in Reqs |-> NewReq]
    /\ faults = 0
    /\ changes = 0

\* time.Now() advances.
Tick ==
    /\ now < MaxTime
    /\ now' = now + 1
    /\ UNCHANGED <<accounts, changedAt, store, issued, cache, basicAuthCache,
                   sessions, req, faults, changes>>

\* The requests that have been answered.
Answered == {q \in Reqs : req[q].pc = "done" \/ Len(req[q].rets) > 0}

\* A request reaches its handler: a GetUser caller (handleAppInit,
\* handleGetSessionUser, ...), handleLogin, handleFirebaseLogin or
\* handleLogout.  The client sends a session cookie it was issued, or none.
CookieValues == {""} \cup {SidSeq[i] : i \in 1..issued}

Arrive(r, reqs, kinds, cookies, heads, forms) ==
    /\ r \in reqs
    /\ req[r].pc = "new"
    /\ \A q \in reqs : q < r => req[q].pc # "new"
    /\ \E kind \in kinds, cookie \in cookies \cap CookieValues,
          auth \in {""} \cup heads, form \in forms \cup {<<>>} :
          /\ kind # "getuser" => auth = ""
          /\ kind \in {"login", "firebase"} <=> form # <<>>
          /\ form # <<>> => (kind = "login" <=> Len(form) = 2)
          /\ req' = [req EXCEPT ![r] =
                [NewReq EXCEPT !.pc = IF kind = "getuser" THEN "idle"
                                      ELSE IF kind = "login" THEN "li_auth"
                                      ELSE IF kind = "firebase" THEN "fb_verify"
                                      ELSE "lo_del",
                               !.kind = kind, !.cookie = cookie, !.auth = auth,
                               !.form = form, !.prior = Answered]]
    /\ UNCHANGED <<now, accounts, changedAt, store, issued, cache, basicAuthCache,
                   sessions, faults, changes>>

\* A GetUser that memoizes whatever it returns.
ReturnMemoAll(rq, user, err, memo) ==
    [rq EXCEPT !.pc = "idle",
               !.rets = Append(@, [user |-> user, err |-> err]),
               !.user = <<user>>]

\* GetUser returns (user, err); memo: c.Set("user", user) ran before the return.
Return(rq, user, err, memo) ==
    [rq EXCEPT !.pc = "idle",
               !.rets = Append(@, [user |-> user, err |-> err]),
               !.user = IF memo THEN <<user>> ELSE @]

\* A GetUser that ignores the Authorization header.
BasicPathNever(auth) == FALSE

\* GetUser line 150: auth != "".
BasicPath(auth) == auth # ""

\* A lookup that keeps every identity under one key.
IdentityKeyShared(session) == "alice"

\* The key of the Identity Cache lookup: s.cache.Get(session.Username).
IdentityKey(session) == session.Username

\* GetUser lines 179-183: s.cache.Get(session.Username).  A hit returns the
\* item's value; a miss enters the loader, which blocks in GetByUsername.
IdentityLookup(r, rq) ==
    LET key == IdentityKey(rq.session[1])
        q == [rq EXCEPT !.idLookups = @ + 1]
        loading == {o \in Reqs \ {r} :
                      req[o].pc = "gu_load" /\ IdentityKey(req[o].session[1]) = key} IN
    IF CacheHit(cache, key, now)
    THEN /\ cache' = CacheRead(cache, key, now)
         /\ req' = [req EXCEPT ![r] =
                      Return([q EXCEPT !.hit = TRUE, !.lag = now - cache[key].born],
                             cache[key].val, "nil", TRUE)]
    ELSE /\ cache' = cache
         /\ req' = [req EXCEPT ![r] =
                      [q EXCEPT !.pc = "gu_load",
                                !.dup = IF loading = {} THEN 0
                                        ELSE CHOOSE o \in loading : TRUE]]

\* strings.EqualFold(auth[:prefixLen], basic)
EqualFold(a, b) ==
    LET lower(x) == IF x \in {"Basic", "BASIC", "basic"} THEN "basic" ELSE x IN
    lower(a) = lower(b)

\* AuthService.GetUser up to its first blocking call.
GetUserBody(r) ==
    /\ req[r].pc = "idle" /\ req[r].kind = "getuser"
    /\ LET rq == [req[r] EXCEPT !.at = now, !.hit = FALSE, !.lag = 0, !.dup = 0,
                                !.loaded = "", !.there = FALSE] IN
       IF rq.user # <<>>
       THEN /\ req' = [req EXCEPT ![r] = Return(rq, rq.user[1], "nil", FALSE)]
            /\ UNCHANGED <<cache, basicAuthCache>>
       ELSE IF BasicPath(rq.auth)
       THEN /\ cache' = cache
            /\ IF CacheHit(basicAuthCache, rq.auth, now)
               THEN /\ basicAuthCache' = CacheRead(basicAuthCache, rq.auth, now)
                    /\ req' = [req EXCEPT ![r] =
                          Return([rq EXCEPT !.hit = TRUE,
                                            !.lag = now - basicAuthCache[rq.auth].born],
                                 basicAuthCache[rq.auth].val, "nil", TRUE)]
               ELSE /\ basicAuthCache' = basicAuthCache
                    /\ LET h == HeaderTable[rq.auth] IN
                       req' = [req EXCEPT ![r] =
                          IF ~(h.long /\ EqualFold(h.prefix, "basic"))
                          THEN Return(rq, ZeroUser, "nil", TRUE)
                          ELSE IF ~h.b64 THEN Return(rq, AnonymousUser, "decode", FALSE)
                          ELSE IF Len(h.cred) # 2 THEN Return(rq, ZeroUser, "nil", TRUE)
                          ELSE [rq EXCEPT !.pc = "gu_auth"]]
       ELSE /\ basicAuthCache' = basicAuthCache
            /\ IF rq.session # <<>>
               THEN IdentityLookup(r, rq)
               ELSE /\ cache' = cache
                    /\ req' = [req EXCEPT ![r] =
                          IF rq.cookie = ""
                          THEN Return(rq, AnonymousUser, "nil", FALSE)
                          ELSE [rq EXCEPT !.pc = "gu_store"]]
    /\ UNCHANGED <<now, accounts, changedAt, store, issued, sessions, faults, changes>>

\* The GetUser call of a request's handler.
GetUser(r) == Len(req[r].rets) < MaxCalls /\ GetUserBody(r)

\* A further GetUser call on the same echo.Context, by a handler that runs
\* after another GetUser caller of the request.
GetUserAgain(r) ==
    /\ MaxCalls <= Len(req[r].rets) /\ Len(req[r].rets) < MaxRepeat
    /\ GetUserBody(r)

\* A blocking call succeeds (ok) or fails; io: the outcomes a scenario draws.
Outcome(ok, io) ==
    /\ ok \in io
    /\ ok \/ faults < MaxFaults
    /\ faults' = IF ok THEN faults ELSE faults + 1

\* An error test that takes no error for ErrInvalidSession.
IsInvalidSessionNever(err) == FALSE

\* An error test that takes every error for ErrInvalidSession.
IsInvalidSessionAlways(err) == err # "nil"

\* GetSessionInfo line 132: errors.Is(err, ErrInvalidSession).
IsInvalidSession(err) == err = "invalid"

\* GetSessionInfo from s.store.Get on, then GetUser lines 173-183.  On
\* ErrInvalidSession LogoutUser deletes the id and clears the cookie; c.Set(
\* "session", nil) stores nothing that c.Get("session").(SessionInfo) finds.
GetSession(r, io) ==
    /\ req[r].pc = "gu_store"
    /\ \E ok \in BOOLEAN :
        /\ Outcome(ok, io)
        /\ LET rq == [req[r] EXCEPT !.storeGets = @ + 1, !.fault = @ \/ ~ok,
                        !.live = ok /\ req[r].cookie \in Sids
                                 /\ store[req[r].cookie].present
                                 /\ now <= store[req[r].cookie].exp,
                        !.unexpired = req[r].cookie \in Sids
                                 /\ now <= sessions[req[r].cookie].exp]
               g == IF ok THEN StoreGet(store, rq.cookie, now)
                    ELSE [err |-> "infra", data |-> ""] IN
           IF g.err # "nil" /\ ~IsInvalidSession(g.err)
           THEN /\ req' = [req EXCEPT ![r] = Return(rq, AnonymousUser, g.err, FALSE)]
                /\ UNCHANGED <<store, cache>>
           ELSE IF g.err # "nil"
           THEN /\ store' = StoreDel(store, rq.cookie)
                /\ req' = [req EXCEPT ![r] =
                      Return([rq EXCEPT !.setCookie = "cleared", !.dels = @ + 1,
                                        !.setCookies = Append(@, ClearingCookie)],
                             AnonymousUser, "nil", FALSE)]
                /\ cache' = cache
           ELSE /\ store' = store
                /\ IdentityLookup(r, [rq EXCEPT
                         !.session = <<[ID |-> rq.cookie, Username |-> g.data]>>])
    /\ UNCHANGED <<now, accounts, changedAt, issued, basicAuthCache, sessions, changes>>

\* The loader of NewAuthService from accounts.GetByUsername on, then GetUser
\* lines 180-186.
Load(r, io) ==
    /\ req[r].pc = "gu_load"
    /\ \E dbok \in BOOLEAN :
        /\ Outcome(dbok, io)
        /\ LET rq == [req[r] EXCEPT !.loads = @ + 1, !.fault = @ \/ ~dbok,
                        !.there = dbok /\ req[r].session[1].Username \in Users
                                  /\ accounts[req[r].session[1].Username].exists]
               key == IdentityKey(rq.session[1])
               g == GetByUsername(accounts, key) IN
           IF ~dbok \/ g.err # "nil"
           THEN /\ cache' = cache
                /\ req' = [req EXCEPT ![r] =
                      Return([rq EXCEPT !.loaded = "fail"], AnonymousUser, "nil", FALSE)]
           ELSE /\ cache' = CacheSet(cache, key, AccountToUser(g.account), now)
                /\ req' = [req EXCEPT ![r] =
                      Return([rq EXCEPT !.loaded = "ok"],
                             AccountToUser(g.account), "nil", TRUE)]
    /\ UNCHANGED <<now, accounts, changedAt, store, issued, basicAuthCache, sessions,
                   changes>>

\* GetUser lines 162-168: s.Authenticate(cred[0], cred[1]) and what follows.
BasicAuth(r, io) ==
    /\ req[r].pc = "gu_auth"
    /\ \E dbok \in BOOLEAN :
        /\ Outcome(dbok, io)
        /\ LET rq == [req[r] EXCEPT !.auths = @ + 1, !.fault = @ \/ ~dbok]
               cred == HeaderTable[rq.auth].cred
               a == Authenticate(accounts, cred[1], cred[2], dbok) IN
           IF a.err # "nil"
           THEN /\ basicAuthCache' = basicAuthCache
                /\ req' = [req EXCEPT ![r] = Return(rq, AnonymousUser, a.err, FALSE)]
           ELSE /\ basicAuthCache' =
                      CacheSet(basicAuthCache, rq.auth, AccountToUser(a.account), now)
                /\ req' = [req EXCEPT ![r] =
                      Return(rq, AccountToUser(a.account), "nil", TRUE)]
    /\ UNCHANGED <<now, accounts, changedAt, store, issued, cache, sessions, changes>>

\* A handler that refuses a wrong password only.
UnauthorizedPassword(err) == err = "ErrInvalidPassword"

\* handleLogin line 27: if err != nil.
Unauthorized(err) == err # "nil"

\* handleLogin line 26: s.auth.Authenticate(form.Username, form.Password);
\* a failure of any kind is answered 401 "Please provide valid credentials".
LoginAuth(r, io) ==
    /\ req[r].pc = "li_auth"
    /\ \E dbok \in BOOLEAN :
        /\ Outcome(dbok, io)
        /\ LET a == Authenticate(accounts, req[r].form[1], req[r].form[2], dbok)
               rq == [req[r] EXCEPT !.auths = @ + 1, !.fault = @ \/ ~dbok,
                                    !.authd = <<a>>] IN
           req' = [req EXCEPT ![r] =
                     IF Unauthorized(a.err)
                     THEN [rq EXCEPT !.pc = "done", !.status = "401"]
                     ELSE [rq EXCEPT !.pc = "li_set", !.account = a.account]]
    /\ UNCHANGED <<now, accounts, changedAt, store, issued, cache, basicAuthCache,
                   sessions, changes>>

\* A LoginUser that leaves the old session in the store.
DeletesNothing(cookie) == FALSE

\* Whether LoginUserWithExpiration deletes the session of the request's cookie.
DeletesOld(cookie) == cookie # ""

\* A login that ignores a failed store.Set.
LoginFailsNever(okSet, okDel, okUpd) == FALSE

\* A login that fails when any of its three calls fails.
LoginFailsOnAny(okSet, okDel, okUpd) == ~(okSet /\ okDel /\ okUpd)

\* Which failures make LoginUserWithExpiration return an error: that of
\* store.Set (line 217); those of store.Del and accounts.Update are logged.
LoginFails(okSet, okDel, okUpd) == ~okSet

\* AuthService.LoginUserWithExpiration: a fresh uuid; store.Set (a failure
\* ends the login with an error); store.Del of the request's old cookie and
\* accounts.Update with LastLogin = now (their failures are logged); the
\* session cookie.  The handler answers 200, or 500 for the error.
\* No other request can present the new id before this one is answered, so
\* the three calls are one step.
LoginUserWithExpiration(r, io, expiration) ==
    /\ issued < Len(SidSeq)
    /\ \E okSet \in io, okDel \in io, okUpd \in io :
        LET rq == req[r]
            sessionid == SidSeq[issued + 1]
            failed == Cardinality({x \in {<<1, okSet>>, <<2, okDel>>, <<3, okUpd>>} : ~x[2]})
            saved == IF okSet
                     THEN StoreSet(store, sessionid, rq.account.Username, expiration, now)
                     ELSE store
            deletes == okSet /\ DeletesOld(rq.cookie)
            rows == IF okSet /\ okUpd
                    THEN UpdateRow(accounts, [rq.account EXCEPT !.LastLogin = now])
                    ELSE accounts
            answer == IF LoginFails(okSet, okDel, okUpd)
                      THEN [rq EXCEPT !.pc = "done", !.status = "500"]
                      ELSE [rq EXCEPT !.pc = "done", !.status = "200",
                                      !.setCookie = sessionid,
                                      !.setCookies = Append(@,
                                          SessionCookie(sessionid, now + expiration))] IN
        /\ faults + failed <= MaxFaults
        /\ faults' = faults + failed
        /\ ~okSet => okDel /\ okUpd
        /\ ~DeletesOld(rq.cookie) => okDel
        /\ store' = IF deletes /\ okDel THEN StoreDel(saved, rq.cookie) ELSE saved
        /\ sessions' = IF okSet
                       THEN [sessions EXCEPT ![sessionid] =
                               [user |-> rq.account.Username, exp |-> now + expiration]]
                       ELSE sessions
        /\ issued' = IF okSet THEN issued + 1 ELSE issued
        /\ accounts' = rows
        /\ changedAt' = [x \in Users |->
               IF rows[x].active # accounts[x].active
                  \/ rows[x].superuser # accounts[x].superuser
               THEN now ELSE changedAt[x]]
        /\ req' = [req EXCEPT ![r] =
              [answer EXCEPT !.sid = IF okSet THEN sessionid ELSE @,
                             !.dels = IF deletes THEN @ + 1 ELSE @,
                             !.delOk = okSet /\ rq.cookie # "" /\ okDel,
                             !.fault = ~(okSet /\ okDel /\ okUpd)]]
    /\ UNCHANGED <<now, cache, basicAuthCache, changes>>

\* handleLogin lines 29-31: AuthService.LoginUser =
\* LoginUserWithExpiration(c, account, s.expiration).
LoginUser(r, io) ==
    /\ req[r].pc = "li_set"
    /\ LoginUserWithExpiration(r, io, Expiration)

\* handleFirebaseLogin lines 47-52: client.VerifyIDToken; an error is
\* answered 401, otherwise the token's e-mail claim is read.
FirebaseVerify(r) ==
    /\ req[r].pc = "fb_verify"
    /\ req' = [req EXCEPT ![r] =
          IF TokenTable[req[r].form[1]].valid
          THEN [@ EXCEPT !.pc = "fb_find"]
          ELSE [@ EXCEPT !.pc = "done", !.status = "401"]]
    /\ UNCHANGED <<now, accounts, changedAt, store, issued, cache, basicAuthCache,
                   sessions, faults, changes>>

\* handleFirebaseLogin line 53: account, err := ...Repository.GetByEmail(email).
\* err is not read afterwards: line 55 declares a new err.
FirebaseFind(r, io) ==
    /\ req[r].pc = "fb_find"
    /\ \E dbok \in BOOLEAN :
        /\ Outcome(dbok, io)
        /\ LET g == IF dbok THEN GetByEmail(accounts, TokenTable[req[r].form[1]].email)
                    ELSE [err |-> "db", account |-> ZeroAccount] IN
           req' = [req EXCEPT ![r] =
                     [@ EXCEPT !.pc = "fb_set", !.account = g.account, !.fault = ~dbok,
                               !.authd = <<[err |-> g.err, account |-> g.account,
                                            via |-> "email"]>>]]
    /\ UNCHANGED <<now, accounts, changedAt, store, issued, cache, basicAuthCache,
                   sessions, changes>>

\* handleFirebaseLogin lines 54-58: LoginUserWithExpiration(c, account,
\* 62 * time.Minute).
FirebaseLogin(r, io) ==
    /\ req[r].pc = "fb_set"
    /\ LoginUserWithExpiration(r, io, FirebaseExpiration)

\* A LogoutUser that takes every request to carry the cookie.
HasSessionCookieAlways(cookie) == TRUE

\* LogoutUser lines 249-250: the request carries a gq_session cookie.
HasSessionCookie(cookie) == cookie # ""

\* handleLogout: LogoutUser (store.Del of the cookie's id, a failure is
\* logged; the clearing cookie), then 200.
Logout(r, io) ==
    /\ req[r].pc = "lo_del"
    /\ \E ok \in BOOLEAN :
        /\ Outcome(ok, io)
        /\ ~HasSessionCookie(req[r].cookie) => ok
        /\ store' = IF ok /\ HasSessionCookie(req[r].cookie)
                    THEN StoreDel(store, req[r].cookie) ELSE store
        /\ req' = [req EXCEPT ![r] =
              [@ EXCEPT !.pc = "done", !.status = "200", !.setCookie = "cleared",
                        !.setCookies = Append(@, ClearingCookie),
                        !.dels = IF HasSessionCookie(req[r].cookie) THEN @ + 1 ELSE @,
                        !.delOk = ok /\ req[r].cookie # "", !.fault = ~ok]]
    /\ UNCHANGED <<now, accounts, changedAt, issued, cache, basicAuthCache, sessions,
                   changes>>

\* The accounts table changes under the service: an administrator deactivates
\* an account, makes it a superuser, or deletes it (AccountsRepository.Update,
\* AccountsRepository.Delete).
Changed(u) ==
    /\ changes < MaxChanges
    /\ changes' = changes + 1
    /\ changedAt' = [changedAt EXCEPT ![u] = now]
    /\ UNCHANGED <<now, store, issued, cache, basicAuthCache, sessions, req, faults>>

Deactivate(u) ==
    /\ accounts[u].exists /\ accounts[u].active
    /\ accounts' = [accounts EXCEPT ![u].active = FALSE]
    /\ Changed(u)

Promote(u) ==
    /\ accounts[u].exists /\ ~accounts[u].superuser
    /\ accounts' = [accounts EXCEPT ![u].superuser = TRUE]
    /\ Changed(u)

DeleteAccount(u) ==
    /\ accounts[u].exists
    /\ accounts' = [accounts EXCEPT ![u] = NoRow]
    /\ Changed(u)

\* ----------------------------------------------------------- specifications
\* Cookie sessions: two requests, each a login, a logout or a GetUser caller,
\* none with an Authorization header; blocking calls may fail; alice's account
\* may change.
Next ==
    \/ Tick
    \/ \E r \in Reqs : Arrive(r, {1, 2}, {"getuser", "login", "logout"}, {""} \cup Sids,
                              {}, {<<"alice", "s3cret">>})
    \/ \E r \in Reqs : GetUser(r)
    \/ \E r \in Reqs : GetSession(r, BOOLEAN)
    \/ \E r \in Reqs : Load(r, BOOLEAN)
    \/ \E r \in Reqs : LoginAuth(r, BOOLEAN)
    \/ \E r \in Reqs : LoginUser(r, BOOLEAN)
    \/ \E r \in Reqs : Logout(r, BOOLEAN)
    \/ Deactivate("alice")
    \/ Promote("alice")
    \/ DeleteAccount("alice")

Spec == Init /\ [][Next]_vars

\* Basic-Auth: alice is logged in; three GetUser callers, each sending her
\* session cookie, with or without her Authorization header.
NextBasic ==
    \/ Tick
    \/ \E r \in Reqs : Arrive(r, Reqs, {"getuser"}, {SidSeq[1]},
                              {"Basic YWxpY2U6czNjcmV0"}, {})
    \/ \E r \in Reqs : GetUser(r)
    \/ \E r \in Reqs : GetSession(r, {TRUE})
    \/ \E r \in Reqs : Load(r, {TRUE})
    \/ \E r \in Reqs : BasicAuth(r, {TRUE})
    \/ Promote("alice")

SpecBasic == InitLoggedIn /\ [][NextBasic]_vars

\* Authorization headers: two requests without a cookie, each sending no
\* header, alice's credentials, a wrong password or a header that is no Basic
\* credential; a handler may call GetUser twice; the account query may fail
\* and alice may be deactivated.
NextHeader ==
    \/ Tick
    \/ \E r \in Reqs : Arrive(r, {1, 2}, {"getuser"}, {""},
                              Headers \ {"basic YWxpY2U6czNjcmV0", "Basic Ym9iOmh1bnRlcjI="},
                              {})
    \/ \E r \in Reqs : GetUser(r)
    \/ \E r \in Reqs : GetUserAgain(r)
    \/ \E r \in Reqs : BasicAuth(r, BOOLEAN)
    \/ Deactivate("alice")

SpecHeader == Init /\ [][NextHeader]_vars

\* Repeated calls: the cookie sessions of Spec, with handlers that call
\* GetUser a second time on the same request.
NextRepeat ==
    \/ Tick
    \/ \E r \in Reqs : Arrive(r, {1, 2}, {"getuser", "login", "logout"}, {""} \cup Sids,
                              {}, {<<"alice", "s3cret">>})
    \/ \E r \in Reqs : GetUser(r)
    \/ \E r \in Reqs : GetUserAgain(r)
    \/ \E r \in Reqs : GetSession(r, BOOLEAN)
    \/ \E r \in Reqs : Load(r, BOOLEAN)
    \/ \E r \in Reqs : LoginAuth(r, BOOLEAN)
    \/ \E r \in Reqs : LoginUser(r, BOOLEAN)
    \/ \E r \in Reqs : Logout(r, BOOLEAN)
    \/ Deactivate("alice")
    \/ Promote("alice")
    \/ DeleteAccount("alice")

SpecRepeat == Init /\ [][NextRepeat]_vars

\* Authenticate: two login requests with any form, over any accounts table;
\* the account query may fail.
NextAuth ==
    \/ \E r \in Reqs : Arrive(r, {1, 2}, {"login"}, {""}, {}, Forms)
    \/ \E r \in Reqs : LoginAuth(r, BOOLEAN)
    \/ \E r \in Reqs : LoginUser(r, {TRUE})

SpecAuth == InitAuth /\ [][NextAuth]_vars

\* Two accounts: alice and bob are logged in; two GetUser callers, each with
\* one of the two session cookies or none and one of the two accounts'
\* Authorization headers or none.
NextIdentity ==
    \/ Tick
    \/ \E r \in Reqs : Arrive(r, {1, 2}, {"getuser"}, {""} \cup Sids,
                              {"Basic YWxpY2U6czNjcmV0", "Basic Ym9iOmh1bnRlcjI="}, {})
    \/ \E r \in Reqs : GetUser(r)
    \/ \E r \in Reqs : GetSession(r, {TRUE})
    \/ \E r \in Reqs : Load(r, {TRUE})
    \/ \E r \in Reqs : BasicAuth(r, {TRUE})
    \/ Promote("bob")

SpecIdentity == InitTwoLoggedIn /\ [][NextIdentity]_vars

\* Logins: two requests, each a password login or a Firebase login, over any
\* accounts table; the account query of the Firebase handler may fail.
NextLogin ==
    \/ \E r \in Reqs : Arrive(r, {1, 2}, {"login", "firebase"}, {""} \cup Sids, {},
                              {<<"alice", "s3cret">>, <<"bob", "wrong">>} \cup Payloads)
    \/ \E r \in Reqs : LoginAuth(r, {TRUE})
    \/ \E r \in Reqs : LoginUser(r, {TRUE})
    \/ \E r \in Reqs : FirebaseVerify(r)
    \/ \E r \in Reqs : FirebaseFind(r, BOOLEAN)
    \/ \E r \in Reqs : FirebaseLogin(r, {TRUE})

SpecLogin == InitAuth /\ [][NextLogin]_vars

\* ------------------------------------------------------------------ claims
\* The latest return of request r's GetUser.
Last(r) == req[r].rets[Len(req[r].rets)]

\* Requests whose one GetUser call has returned.
Returned == {r \in Reqs : req[r].kind = "getuser" /\ req[r].pc = "idle"
                          /\ Len(req[r].rets) = 1}

\* Those of them that took the cookie path with a session cookie.
CookieReturned == {r \in Returned : req[r].auth = "" /\ req[r].cookie \in Sids}

\* C1: when two cookie-path GetUser calls of distinct requests miss the
\* Identity Cache for the same username concurrently (the second misses while
\* the first one's load is in flight), GetByUsername is invoked exactly once
\* for that username across the two calls.
C1_ExactlyOneLoad ==
    \A r1, r2 \in CookieReturned :
        req[r2].dup = r1 =>
            Cardinality({r \in {r1, r2} : req[r].loaded # ""}) = 1

\* C2: two cookie-path GetUser calls that miss the Identity Cache on the same
\* username concurrently return the same identity, also when the account is
\* changed or deleted while the misses are served.
C2_SameIdentity ==
    \A r1, r2 \in CookieReturned :
        req[r2].dup = r1 => Last(r1).user = Last(r2).user

Anonymous == [user |-> AnonymousUser, err |-> "nil"]

\* r's GetUser returned the authenticated identity of the account that
\* LoginUser stored under r's session cookie.
AuthenticatedAsOwner(r) ==
    /\ Last(r).err = "nil"
    /\ Last(r).user.IsAuthenticated
    /\ Last(r).user.Username = sessions[req[r].cookie].user

\* C3 as stated, for requests none of whose store or database calls failed:
\* a request carrying a session cookie issued by LoginUser and no
\* Authorization header gets the authenticated identity of the account for as
\* long as the store holds the unexpired entry, and the anonymous identity
\* with no error once the session's lifetime has passed.
C3_AuthenticatedUntilExpiry ==
    \A r \in CookieReturned :
        ~req[r].fault =>
            /\ req[r].live => AuthenticatedAsOwner(r)
            /\ ~req[r].unexpired => Last(r) = Anonymous

\* C3 as amended: the request gets the authenticated identity of the account
\* whenever store.Get returned the entry (unexpired, not deleted by a logout
\* or a re-login, the store answering) and the identity was cached or the
\* account could be loaded; if store.Get found no entry it gets the anonymous
\* identity with no error; once the session's lifetime has passed it always
\* gets the anonymous identity, with no error unless store.Get itself failed.
C3_AuthenticatedWhileStored ==
    \A r \in CookieReturned :
        /\ req[r].live /\ (req[r].hit \/ req[r].there) => AuthenticatedAsOwner(r)
        /\ ~req[r].live /\ ~req[r].fault => Last(r) = Anonymous
        /\ ~req[r].unexpired => /\ Last(r).user = AnonymousUser
                                /\ ~req[r].fault => Last(r).err = "nil"

\* A login was answered 200 and a later request presenting its cookie got the
\* account's authenticated identity.
C3_Witness ==
    \E q \in Reqs, r \in CookieReturned :
        /\ req[q].kind = "login" /\ req[q].status = "200"
        /\ req[r].cookie = req[q].sid
        /\ AuthenticatedAsOwner(r)
        /\ Last(r).user.Username = req[q].account.Username

\* Requests answered by handleLogout, and by handleLogin after LoginUser ran,
\* that carried a session cookie.
LoggedOut == {q \in Reqs : req[q].kind = "logout" /\ req[q].pc = "done"
                           /\ req[q].cookie \in Sids}

LoggedInAgain == {q \in Reqs : req[q].kind = "login" /\ req[q].pc = "done"
                               /\ req[q].status \in {"200", "500"}
                               /\ req[q].cookie \in Sids}

\* The requests that presented q's cookie after q was answered.
Later(q) == {r \in CookieReturned : req[r].cookie = req[q].cookie /\ q \in req[r].prior}

\* C4 as stated: after LogoutUser ran for a request with session cookie S the
\* response clears gq_session, and every later request presenting S gets the
\* anonymous identity with no error.
C4_LogoutThenAnonymous ==
    \A q \in LoggedOut :
        /\ req[q].setCookie = "cleared"
        /\ \A r \in Later(q) : Last(r) = Anonymous

\* C4 as amended: the response always clears gq_session; when store.Del
\* succeeded, S is gone from the store and every later request presenting S
\* gets the anonymous identity, with no error unless its store.Get fails.
C4_LogoutDeletedThenAnonymous ==
    \A q \in LoggedOut :
        /\ req[q].setCookie = "cleared"
        /\ req[q].delOk =>
              /\ ~store[req[q].cookie].present
              /\ \A r \in Later(q) : /\ Last(r).user = AnonymousUser
                                     /\ ~req[r].fault => Last(r) = Anonymous

C4_Witness ==
    \E q \in LoggedOut : \E r \in Later(q) :
        /\ req[q].delOk /\ sessions[req[q].cookie].exp >= req[r].at
        /\ Last(r) = Anonymous /\ req[r].setCookie = "cleared"

\* C5 as stated: after LoginUser returns for a request that carried session
\* cookie S_old, S_old is not in the store and every later request presenting
\* S_old gets the anonymous identity.
C5_ReloginDropsOld ==
    \A q \in LoggedInAgain :
        /\ ~StoreLive(store[req[q].cookie], now)
        /\ \A r \in Later(q) : Last(r).user = AnonymousUser

\* C5 as amended: the same when LoginUser's store.Set and its store.Del of
\* S_old both succeeded.
C5_ReloginDeletedOld ==
    \A q \in LoggedInAgain :
        req[q].status = "200" /\ req[q].delOk =>
            /\ ~store[req[q].cookie].present
            /\ \A r \in Later(q) : Last(r).user = AnonymousUser

C5_Witness ==
    \E q \in LoggedInAgain : \E r \in Later(q) :
        /\ req[q].status = "200" /\ req[q].delOk
        /\ sessions[req[q].cookie].exp >= req[r].at
        /\ StoreLive(store[req[q].sid], now)
        /\ Last(r) = Anonymous

\* C6: a cookie-path request is authenticated only if store.Get returned the
\* session's entry in that same request, and neither cache is keyed by a
\* session id: a live Identity Cache entry alone never authenticates a cookie
\* whose id the store no longer holds.
C6_StoreDecidesValidity ==
    /\ \A r \in CookieReturned :
          Last(r).user.IsAuthenticated => req[r].live /\ req[r].storeGets = 1
    /\ DOMAIN cache \cap Sids = {}
    /\ DOMAIN basicAuthCache \cap Sids = {}

\* A request whose session had left the store got the anonymous identity
\* while the Identity Cache held a live entry for the session's account.
C6_Witness ==
    \E r \in CookieReturned :
        /\ ~req[r].live /\ ~req[r].fault /\ req[r].storeGets = 1
        /\ CacheHit(cache, sessions[req[r].cookie].user, req[r].at)
        /\ cache[sessions[req[r].cookie].user].born <= req[r].at
        /\ ~Last(r).user.IsAuthenticated

\* C7: a GetUser whose request has a non-empty Authorization header takes
\* the Basic-Auth path only: it never queries the session store, never
\* consults the Identity Cache, memoizes no session and neither sets nor
\* clears the session cookie, whatever cookie the request carries.
C7_HeaderShadowsCookie ==
    \A r \in Reqs :
        req[r].kind = "getuser" /\ req[r].auth # "" =>
            /\ req[r].pc \notin {"gu_store", "gu_load"}
            /\ req[r].storeGets = 0 /\ req[r].idLookups = 0 /\ req[r].loads = 0
            /\ req[r].session = <<>>
            /\ req[r].setCookie = "none"

\* A request with both a header and the cookie of a session the store holds
\* was answered from the header's credentials.
C7_Witness ==
    \E r \in Returned :
        /\ req[r].auth # "" /\ req[r].cookie \in Sids
        /\ StoreLive(store[req[r].cookie], req[r].at)
        /\ req[r].auths = 1 /\ Last(r).user.IsAuthenticated

\* The account a cookie-path request's session names.
Owner(r) == sessions[req[r].cookie].user

\* C8: staleness is bounded by one cache TTL.  A GetUser that starts more
\* than one TTL after the last change of the account, whose session the
\* store holds and none of whose calls failed, returns the projection of the
\* account as it is now, and returns no authenticated identity for an account
\* that was deactivated or deleted.
C8_BoundedStaleness ==
    \A r \in CookieReturned :
        req[r].live /\ ~req[r].fault /\ req[r].at > changedAt[Owner(r)] + CacheTTL =>
            IF accounts[Owner(r)].exists /\ accounts[Owner(r)].active
            THEN Last(r).user = AccountToUser(ToAccount(accounts, Owner(r)))
            ELSE ~Last(r).user.IsAuthenticated

\* Every item of both caches expires at its insertion time plus the TTL.
FixedExpiry ==
    /\ \A k \in DOMAIN cache : cache[k].exp = cache[k].born + CacheTTL
    /\ \A k \in DOMAIN basicAuthCache :
          basicAuthCache[k].exp = basicAuthCache[k].born + CacheTTL

\* The cache key of a request's lookup: the header, or the session's account.
LookupKey(r) == IF req[r].auth # "" THEN req[r].auth ELSE Owner(r)

\* C9 as stated: in both caches a hit leaves the item's expiry at insertion
\* time + TTL, and no lookup at or after insertion time + TTL returns the
\* item.
C9_NeverAtOrAfterTTL ==
    /\ FixedExpiry
    /\ \A r \in Returned : req[r].hit => req[r].lag < CacheTTL

\* C9 as amended: in both caches a hit leaves the item's expiry at insertion
\* time + TTL, and no lookup after insertion time + TTL returns the item; a
\* lookup at exactly insertion time + TTL still does.
C9_NeverAfterTTL ==
    /\ FixedExpiry
    /\ \A r \in Returned : req[r].hit => req[r].lag <= CacheTTL

\* An item was hit at the last instant of its life, and a later lookup of the
\* same key missed and went back to the Account Source.
C9_Witness ==
    \E r1, r2 \in Returned :
        /\ LookupKey(r1) = LookupKey(r2) /\ r1 \in req[r2].prior
        /\ req[r1].hit /\ req[r1].lag = CacheTTL
        /\ ~req[r2].hit /\ req[r2].loads + req[r2].auths = 1
        /\ req[r2].at > req[r1].at

\* The answered Basic-Auth requests, and those Authenticate verified.
BasicReturned == {r \in Returned : req[r].auth # ""}

Verified == {r \in BasicReturned : req[r].auths = 1 /\ Last(r).err = "nil"
                                    /\ Last(r).user.IsAuthenticated}

\* The requests with r1's header that arrived after r1 was answered and
\* called GetUser before the TTL had run from r1's call.
Repeats(r1) == {r2 \in BasicReturned : /\ req[r2].auth = req[r1].auth
                                       /\ r1 \in req[r2].prior
                                       /\ req[r2].at - req[r1].at < CacheTTL}

\* C10 as stated: after Authenticate verified a request's header, a second
\* request with the identical header within the TTL gets the first request's
\* identity without invoking Authenticate.
C10_RepeatSameIdentity ==
    \A r1 \in Verified : \A r2 \in Repeats(r1) :
        /\ req[r2].auths = 0
        /\ Last(r2) = Last(r1)

\* C10 as amended: the second request is answered from the Credential Cache
\* without invoking Authenticate, with the authenticated identity of the
\* same account: the first request's identity, or the one a concurrent
\* verification of the same header has stored since.
C10_RepeatFromCache ==
    \A r1 \in Verified : \A r2 \in Repeats(r1) :
        /\ req[r2].auths = 0 /\ req[r2].hit
        /\ Last(r2).err = "nil" /\ Last(r2).user.IsAuthenticated
        /\ Last(r2).user.Username = Last(r1).user.Username
        /\ \/ Last(r2).user = Last(r1).user
           \/ \E r3 \in Reqs \ {r1, r2} :
                 /\ req[r3].auth = req[r1].auth /\ r3 \notin req[r1].prior
                 /\ req[r3].auths >= 1 /\ Len(req[r3].rets) >= 1
                 /\ req[r3].rets[1] = Last(r2)

C10_Witness ==
    \E r1 \in Verified : \E r2 \in Repeats(r1) :
        /\ req[r2].auths = 0 /\ req[r2].hit
        /\ Last(r2) = Last(r1)

\* Requests whose first GetUser call ended in an error of Authenticate.
Failed == {r \in Reqs : /\ req[r].auth # "" /\ Len(req[r].rets) >= 1
                        /\ req[r].rets[1].err \notin {"nil", "decode"}}

\* Every Credential Cache entry is the authenticated identity that some
\* request's verification of that header returned.
OnlyVerifiedCached ==
    \A k \in DOMAIN basicAuthCache :
        /\ basicAuthCache[k].val.IsAuthenticated
        /\ \E r \in Reqs : /\ req[r].auth = k /\ req[r].auths >= 1
                           /\ \E i \in 1..Len(req[r].rets) :
                                 req[r].rets[i] = [user |-> basicAuthCache[k].val,
                                                   err |-> "nil"]

\* The latest call of r was answered from an entry another request stored.
HitVerified(r) ==
    /\ req[r].hit
    /\ \E o \in Reqs \ {r} : req[o].auth = req[r].auth /\ req[o].auths >= 1

\* C11 as stated: a failed Authenticate on the Basic-Auth path is returned as
\* the error, leaves no Credential Cache entry and no identity memo, and
\* every later GetUser with the same header, in the same or another request,
\* invokes Authenticate again.
C11_FailureReverifiedAlways ==
    /\ OnlyVerifiedCached
    /\ \A r \in Failed :
          /\ Len(req[r].rets) = 1 => req[r].user = <<>>
          /\ Len(req[r].rets) = 2 => req[r].auths = 2
          /\ \A o \in Reqs \ {r} :
                req[o].auth = req[r].auth /\ r \in req[o].prior /\ Len(req[o].rets) = 1
                    => req[o].auths = 1

\* C11 as amended: the same, except that a later GetUser with the same header
\* is answered from the Credential Cache, without Authenticate, once another
\* request's verification of that header has succeeded and stored an entry.
C11_FailureReverifiedUntilVerified ==
    /\ OnlyVerifiedCached
    /\ \A r \in Failed :
          /\ Len(req[r].rets) = 1 => req[r].user = <<>>
          /\ Len(req[r].rets) = 2 => req[r].auths = 2 \/ HitVerified(r)
          /\ \A o \in Reqs \ {r} :
                req[o].auth = req[r].auth /\ r \in req[o].prior /\ Len(req[o].rets) = 1
                    => req[o].auths = 1 \/ HitVerified(o)

\* A wrong password was refused twice in one request and once more in a later
\* request, Authenticate running each time.
C11_Witness ==
    \E r \in Failed, o \in Failed :
        /\ r # o /\ req[o].auth = req[r].auth /\ r \in req[o].prior
        /\ Len(req[r].rets) = 2 /\ req[r].auths = 2
        /\ req[r].rets[2].err = "ErrInvalidPassword"
        /\ req[o].auths = 1 /\ basicAuthCache = <<>>

\* A header is a well-formed Basic credential: scheme Basic in any case, a
\* payload that decodes, and a colon in the decoded payload.
WellFormed(auth) ==
    LET h == HeaderTable[auth] IN
    /\ h.long /\ h.prefix \in {"Basic", "basic", "BASIC"}
    /\ h.b64 /\ Len(h.cred) = 2

\* C12: a header that is no well-formed Basic credential makes GetUser return
\* a decoding error: no call of the request returns a nil error and nothing
\* is memoized as the request's identity.
C12_MalformedIsDecodingError ==
    \A r \in Reqs :
        req[r].kind = "getuser" /\ req[r].auth # "" /\ ~WellFormed(req[r].auth) =>
            /\ req[r].user = <<>>
            /\ \A i \in 1..Len(req[r].rets) : req[r].rets[i].err # "nil"

\* C13: a request with no Authorization header and no session cookie gets a
\* nil error and the anonymous identity with IsAuthenticated = false and
\* IsGuest = false, and neither the session store nor the accounts are
\* queried.
C13_AnonymousNotGuest ==
    \A r \in Returned :
        req[r].auth = "" /\ req[r].cookie = "" =>
            /\ Last(r).err = "nil"
            /\ ~Last(r).user.IsAuthenticated /\ ~Last(r).user.IsGuest
            /\ req[r].storeGets = 0 /\ req[r].loads = 0 /\ req[r].auths = 0

\* The store answered r's store.Get with not-found; r's store.Get failed.
StoreNotFound(r) == req[r].storeGets = 1 /\ ~req[r].live /\ ~req[r].fault

StoreFailed(r) == req[r].storeGets = 1 /\ req[r].fault /\ req[r].idLookups = 0

\* C14: when the store reports the cookie's id as not found or expired, no
\* session is resolved, the response carries the cookie-clearing gq_session
\* cookie, and GetUser returns the anonymous identity with a nil error.
C14_InvalidSessionIsAnonymous ==
    \A r \in CookieReturned :
        StoreNotFound(r) =>
            /\ Last(r) = Anonymous
            /\ req[r].session = <<>>
            /\ req[r].setCookie = "cleared"
            /\ ~StoreLive(store[req[r].cookie], now)

\* A request presented the cookie of a session whose lifetime had passed.
C14_Witness ==
    \E r \in CookieReturned :
        /\ StoreNotFound(r) /\ ~req[r].unexpired
        /\ sessions[req[r].cookie].user = "alice"
        /\ Last(r) = Anonymous /\ req[r].setCookie = "cleared"

\* A GetUser call of r returns after a failed store.Get.
StoreFailsIn(r) ==
    /\ req[r].pc = "gu_store" /\ req'[r].pc = "idle"
    /\ req'[r].rets[Len(req'[r].rets)].err \notin {"nil"}

\* C15: when store.Get fails with an error other than not-found, GetUser
\* returns a non-nil error, the session cookie is not cleared, nothing is
\* memoized for the request, and no session is deleted by the call.
C15_StoreErrorPropagates ==
    /\ [](\A r \in CookieReturned :
            StoreFailed(r) =>
                /\ Last(r).err # "nil"
                /\ req[r].setCookie = "none"
                /\ req[r].session = <<>> /\ req[r].user = <<>>)
    /\ [][\A r \in Reqs : StoreFailsIn(r) => store' = store /\ cache' = cache]_vars

\* A store.Get failed for a session the store holds, and the session is
\* still there.
C15_Witness ==
    \E r \in CookieReturned :
        /\ StoreFailed(r) /\ Last(r).err = "infra"
        /\ StoreLive(store[req[r].cookie], req[r].at)
        /\ req[r].setCookie = "none"

\* The loader ran for r and found no account, or its query failed.
LoaderFailed(r) == req[r].loads = 1 /\ ~req[r].there

\* The loader of r returns.
LoaderReturnsIn(r) == req[r].pc = "gu_load" /\ req'[r].pc = "idle"

\* C16: when the session is valid but the loader fails (account not found or
\* query error), GetUser returns the anonymous identity with a nil error, the
\* Identity Cache gains no entry and the session's store entry is untouched.
C16_LoaderFailureIsAnonymous ==
    /\ [](\A r \in CookieReturned :
            LoaderFailed(r) => Last(r) = Anonymous /\ req[r].setCookie = "none")
    /\ [][\A r \in Reqs :
            LoaderReturnsIn(r) /\ ~req'[r].there => cache' = cache /\ store' = store]_vars

\* A dangling session: the store holds it, its account is deleted, and the
\* request got the anonymous identity while the cache stayed empty.
C16_Witness ==
    \E r \in CookieReturned :
        /\ LoaderFailed(r) /\ req[r].live /\ ~req[r].fault
        /\ ~accounts[Owner(r)].exists
        /\ StoreLive(store[req[r].cookie], req[r].at)
        /\ Last(r) = Anonymous /\ Owner(r) \notin DOMAIN cache

\* Requests whose first GetUser call returned a nil error.
Resolved == {r \in Reqs : /\ req[r].kind = "getuser" /\ Len(req[r].rets) >= 1
                          /\ req[r].rets[1].err = "nil"}

\* C17: once a GetUser call of a request has returned a nil error, a later
\* call in the same request returns the same identity and re-runs nothing:
\* it never waits on the store or the loader again, and the request's counts
\* of store.Get, loader runs and Identity Cache lookups stay those of the
\* first call.
C17_ResolvedOnce ==
    \A r \in Resolved :
        /\ req[r].pc = "idle"
        /\ req[r].storeGets <= 1 /\ req[r].loads <= 1 /\ req[r].idLookups <= 1
        /\ Len(req[r].rets) = 2 => req[r].rets[2] = req[r].rets[1]

\* C18: two GetUser calls of one request that both return a nil error return
\* equal identities, whatever other requests and administrators do between
\* the calls.
C18_OneIdentityPerRequest ==
    \A r \in Resolved :
        Len(req[r].rets) = 2 /\ req[r].rets[2].err = "nil" =>
            req[r].rets[2].user = req[r].rets[1].user

\* Login requests whose Authenticate call returned and whose account query
\* answered.
Authenticated == {r \in Reqs : req[r].authd # <<>> /\ ~req[r].fault}

\* The logins written with an "@", and the rows of the table a login names:
\* by the e-mail column for those, by the username column for the others.
WithAt == {"alice@x.com", "bob@x.com", "%@x.com", "ALICE@x.com"}

Matches(login) ==
    IF login \in WithAt
    THEN {u \in Users : accounts[u].exists /\ (login = "%@x.com" \/ Email(u) = login)}
    ELSE {u \in Users : accounts[u].exists /\ u = login}

\* C19: Authenticate uses GetByEmail exactly for logins with an "@" and
\* GetByUsername for the others; it returns the account if and only if the
\* lookup yields exactly one account, active, whose password verifies; no
\* match is a not-found error, several e-mail matches an ambiguity error, a
\* wrong password on a found active account the invalid-password error.
C19_AuthenticateOutcome ==
    /\ \A r \in Reqs : req[r].authd # <<>> =>
          req[r].authd[1].via = IF req[r].form[1] \in WithAt THEN "email" ELSE "username"
    /\ \A r \in Authenticated :
          LET a == req[r].authd[1]
              m == Matches(req[r].form[1])
              ok(u) == accounts[u].active /\ req[r].form[2] = Password(u) IN
          /\ a.err = "nil" <=> \E u \in m : m = {u} /\ ok(u)
          /\ a.err = "nil" => a.account.Username \in m /\ a.account.Active
          /\ m = {} => a.err = "ErrAccountNotFound"
          /\ Cardinality(m) > 1 => a.err = "ambiguous"
          /\ \A u \in m : m = {u} /\ accounts[u].active /\ ~ok(u)
                            => a.err = "ErrInvalidPassword"

\* Logins by e-mail met each case: one account returned, an ambiguous
\* address, and a username login refused for its password.
C19_Witness ==
    \E r, o \in Authenticated :
        /\ req[r].form[1] \in WithAt /\ req[r].authd[1].err = "nil"
        /\ req[r].authd[1].account.Username \in Users
        /\ req[o].authd[1].err \in {"ambiguous", "ErrInvalidPassword"}

\* The login of r names exactly one account, which is inactive; it names none.
NamesInactive(r) == \E u \in Users : Matches(req[r].form[1]) = {u} /\ ~accounts[u].active

NamesNobody(r) == Matches(req[r].form[1]) = {}

\* C20: for an inactive account Authenticate returns the user-not-found error
\* whatever the password, never the invalid-password error, and what it
\* returns is what it returns for a login that names no account.
C20_InactiveIsNotFound ==
    \A r \in Authenticated : NamesInactive(r) =>
        /\ req[r].authd[1].err = "ErrUserNotFound"
        /\ \A o \in Authenticated :
              NamesInactive(o) \/ NamesNobody(o) => req[o].authd[1] = req[r].authd[1]

\* A login with its letters in lower case.
ToLower(login) == IF login = "ALICE@x.com" THEN "alice@x.com" ELSE login

\* C21: e-mail login is case-insensitive.  For an active account, the only
\* one stored with its e-mail address, a login with an "@" that equals the
\* address up to letter case, with the account's password, returns that
\* account by the e-mail lookup.
C21_EmailIgnoresCase ==
    \A r \in Authenticated : \A u \in Users :
        /\ req[r].form[1] \in WithAt /\ ToLower(req[r].form[1]) = Email(u)
        /\ {x \in Users : accounts[x].exists /\ Email(x) = Email(u)} = {u}
        /\ accounts[u].active /\ req[r].form[2] = Password(u)
        => /\ req[r].authd[1].err = "nil"
           /\ req[r].authd[1].account.Username = u
           /\ req[r].authd[1].via = "email"

\* Login requests whose new session store.Set persisted.
Persisted == {q \in Reqs : req[q].kind = "login" /\ req[q].sid # ""}

\* C22: best-effort side operations never fail login.  If the new session
\* was persisted, LoginUser returns nil and the response sets gq_session to
\* the new id with Path=/, HttpOnly, SameSite=Lax and the expiry of the stored
\* session, also when store.Del of the old session or accounts.Update failed.
C22_SideFailuresDoNotFailLogin ==
    \A q \in Persisted :
        /\ req[q].status = "200"
        /\ req[q].setCookies =
              <<[Name |-> "gq_session", Path |-> "/", SameSite |-> "Lax",
                 HttpOnly |-> TRUE, Value |-> req[q].sid,
                 Expires |-> sessions[req[q].sid].exp, MaxAge |-> 0]>>
        /\ sessions[req[q].sid].user = req[q].account.Username

\* A re-login whose store.Del of the old session failed was answered 200 with
\* the new cookie, the old session still in the store.
C22_Witness ==
    \E q \in Persisted :
        /\ req[q].fault /\ req[q].dels = 1 /\ ~req[q].delOk
        /\ store[req[q].cookie].present
        /\ req[q].status = "200" /\ req[q].setCookie = req[q].sid

\* The store st with no session under id sid.
Without(st, sid) == [x \in Sids |-> IF x = sid THEN NoEntry ELSE st[x]]

\* handleLogout answers request q in this step.
LogoutIn(q) == req[q].pc = "lo_del" /\ req'[q].pc = "done"

\* What every answered logout shows: no error, the one cookie-clearing
\* cookie, and no store operation when the request carried no cookie.
LogoutAnswers ==
    \A q \in Reqs :
        req[q].kind = "logout" /\ req[q].pc = "done" =>
            /\ req[q].status = "200"
            /\ req[q].setCookies =
                  <<[Name |-> "gq_session", Path |-> "/", SameSite |-> "Lax",
                     HttpOnly |-> TRUE, Value |-> "", Expires |-> -1, MaxAge |-> -1]>>
            /\ req[q].cookie = "" => req[q].dels = 0 /\ ~req[q].fault

\* C23 as stated: LogoutUser never fails and is idempotent.  Without a cookie
\* it performs no store operation and only emits the clearing cookie; in
\* every case, a repeated logout, a session already gone or a failing
\* store.Del included, it leaves the store as one successful logout does:
\* without the cookie's session and otherwise unchanged.
C23_LogoutIdempotent ==
    /\ []LogoutAnswers
    /\ [][\A q \in Reqs : LogoutIn(q) => store' = Without(store, req[q].cookie)]_vars

\* C23 as amended: the same, except that a logout whose store.Del fails
\* leaves the store unchanged, the session still in it, while reporting no
\* error.
C23_LogoutBestEffort ==
    /\ []LogoutAnswers
    /\ [][\A q \in Reqs : LogoutIn(q) =>
            store' = IF req'[q].fault THEN store ELSE Without(store, req[q].cookie)]_vars

\* The same session was logged out twice, both answered 200, and is gone.
C23_Witness ==
    \E q1, q2 \in LoggedOut :
        /\ q1 \in req[q2].prior /\ req[q1].cookie = req[q2].cookie
        /\ sessions[req[q1].cookie].user # "" /\ ~store[req[q1].cookie].present
        /\ req[q1].delOk /\ req[q2].delOk
        /\ req[q1].status = "200" /\ req[q2].status = "200"

\* Login requests whose Authenticate returned an error, and what the client
\* gets to see of a request: the status and the cookies set.
Refused == {r \in Reqs : req[r].authd # <<>> /\ req[r].authd[1].err # "nil"}

Response(r) == [status |-> req[r].status, cookies |-> req[r].setCookies]

\* handleLogin's Authenticate call returns for r in this step.
AuthenticateIn(r) == req[r].pc = "li_auth" /\ req'[r].pc # "li_auth"

\* C24: handleLogin answers every failed authentication alike: 401, no
\* session created, no cookie set, whether the account does not exist, is
\* inactive or the password is wrong; two failed attempts get identical
\* responses and leave the store as it was.
C24_FailuresAnswerAlike ==
    /\ [](\A r \in Refused :
            /\ req[r].pc = "done" /\ req[r].status = "401"
            /\ req[r].setCookies = <<>> /\ req[r].sid = "" /\ req[r].dels = 0
            /\ \A o \in Refused : Response(o) = Response(r))
    /\ [][\A r \in Reqs :
            AuthenticateIn(r) /\ req'[r].authd[1].err # "nil" =>
                store' = store /\ sessions' = sessions /\ issued' = issued
                /\ accounts' = accounts]_vars

\* Two attempts were refused for different causes among an unknown login, an
\* inactive account and a wrong password.
C24_Witness ==
    \E r, o \in Refused :
        /\ req[r].authd[1].err = "ErrInvalidPassword"
        /\ req[o].authd[1].err \in {"ErrUserNotFound", "ErrAccountNotFound"}
        /\ req[r].status = "401" /\ req[o].status = "401"
        /\ \A x \in Sids : ~store[x].present

\* LoginUser returns for request q in this step.
LoginIn(q) == req[q].pc = "li_set" /\ req'[q].pc = "done"

\* The session ids a step adds to the store and removes from it.
Added == {x \in Sids : store'[x].present /\ ~store[x].present}

Removed == {x \in Sids : store[x].present /\ ~store'[x].present}

\* What a LoginUser step leaves alone: it removes no session but the one of the
\* request's cookie, changes no entry but that one and the one it adds, and
\* leaves both caches as they are; LogoutUser leaves both caches as they are.
LoginFrame(q) ==
    /\ Removed \subseteq {req[q].cookie}
    /\ \A x \in Sids \ (Added \cup {req[q].cookie}) : store'[x] = store[x]
    /\ cache' = cache /\ basicAuthCache' = basicAuthCache

LogoutFrame == cache' = cache /\ basicAuthCache' = basicAuthCache

\* C25 as stated: LoginUser removes at most one session, the one named by
\* the request's cookie, and adds exactly one; every other session, other
\* sessions of the same account included, is unchanged; LoginUser and
\* LogoutUser leave the Identity Cache and the Credential Cache unchanged.
C25_LoginAddsOne ==
    /\ [][\A q \in Reqs : LoginIn(q) => LoginFrame(q) /\ Cardinality(Added) = 1]_vars
    /\ [][\A q \in Reqs : LogoutIn(q) => LogoutFrame]_vars

\* C25 as amended: the same, LoginUser adding exactly one session when its
\* store.Set succeeds and none, removing none either, when store.Set fails.
C25_LoginAddsOneIfSet ==
    /\ [][\A q \in Reqs : LoginIn(q) =>
            /\ LoginFrame(q)
            /\ Cardinality(Added) = IF req'[q].status = "200" THEN 1 ELSE 0
            /\ req'[q].status # "200" => Removed = {}]_vars
    /\ [][\A q \in Reqs : LogoutIn(q) => LogoutFrame]_vars

\* A login without a cookie left the account's earlier session in the store
\* beside the new one, and the Identity Cache entry a request had loaded.
C25_Witness ==
    \E q \in Persisted :
        /\ req[q].cookie = "" /\ req[q].status = "200"
        /\ store[req[q].sid].present
        /\ \E x \in Sids \ {req[q].sid} :
              store[x].present /\ store[x].user = req[q].account.Username
        /\ req[q].account.Username \in DOMAIN cache
        /\ \E r \in req[q].prior : req[r].loaded = "ok"

\* C26: GetSessionInfo is memoized per request for every outcome.  Within
\* one request the store is queried at most once, and after a first call that
\* reported no session (no cookie, or an invalid or expired id) later calls
\* report no session without another store.Get, store.Del or cookie-clearing
\* header.  Stated for requests none of whose store calls failed.
C26_SessionResolvedOnce ==
    \A r \in Reqs :
        req[r].kind = "getuser" /\ req[r].auth = "" /\ ~req[r].fault =>
            /\ req[r].storeGets <= 1
            /\ Len(req[r].rets) >= 1 /\ req[r].session = <<>> =>
                  /\ req[r].pc = "idle"
                  /\ req[r].dels <= 1 /\ Len(req[r].setCookies) <= 1

\* Login requests whose LoginUser returned an error.
LoginErrored == {q \in Reqs : req[q].kind = "login" /\ req[q].pc = "done"
                              /\ req[q].status = "500"}

\* C27: if store.Set fails in LoginUser, LoginUser returns an error and has
\* no other effect: no session cookie on the response, the old session of the
\* request's cookie not deleted and still valid, LastLogin not updated; and a
\* session cookie is only ever issued for an id whose store.Set succeeded.
C27_FailedSetHasNoEffect ==
    /\ [](\A q \in LoginErrored :
            req[q].setCookies = <<>> /\ req[q].sid = "" /\ req[q].dels = 0)
    /\ [](\A q \in Reqs : \A i \in 1..Len(req[q].setCookies) :
            LET v == req[q].setCookies[i].Value IN
            v # "" => v \in Sids /\ sessions[v].user # "" /\ req[q].sid = v)
    /\ [][\A q \in Reqs :
            LoginIn(q) /\ req'[q].status = "500" =>
                store' = store /\ accounts' = accounts /\ sessions' = sessions]_vars

\* A re-login failed at store.Set: the old session is still served by the
\* store and the account's LastLogin is that of the earlier login.
C27_Witness ==
    \E q \in LoginErrored :
        /\ req[q].cookie \in Sids /\ StoreLive(store[req[q].cookie], now)
        /\ store[req[q].cookie].user = req[q].account.Username
        /\ accounts[req[q].account.Username].lastLogin = req[q].account.LastLogin
        /\ req[q].setCookie = "none" /\ req[q].fault

\* The session ids the login handlers have stored.
Stored == {SidSeq[i] : i \in 1..issued}

\* C28: every session a login handler (password or Firebase) writes to the
\* store maps its id to the non-empty username of an account that existed
\* and was looked up successfully when the login ran; a failed account lookup
\* never leads to a stored session or an issued cookie.
C28_SessionsNameAccounts ==
    /\ \A x \in Stored :
          sessions[x].user \in Users /\ accounts[sessions[x].user].exists
    /\ \A q \in Reqs :
          req[q].authd # <<>> /\ req[q].authd[1].err # "nil" =>
              req[q].sid = "" /\ req[q].setCookies = <<>>

\* C29: no identity confusion between accounts.  Every Identity Cache entry
\* under key u holds an authenticated identity with Username = u, so a
\* cookie-path GetUser that returns an authenticated identity returns the one
\* of the username stored for its session id; every Credential Cache entry
\* under header h holds the identity of the account h's credentials
\* authenticate.
C29_NoIdentityConfusion ==
    /\ \A u \in DOMAIN cache :
          cache[u].val.Username = u /\ cache[u].val.IsAuthenticated
    /\ \A r \in CookieReturned :
          Last(r).user.IsAuthenticated =>
              Last(r).user.Username = sessions[req[r].cookie].user
    /\ \A h \in DOMAIN basicAuthCache :
          /\ basicAuthCache[h].val.IsAuthenticated
          /\ \E u \in Users : /\ basicAuthCache[h].val.Username = u
                              /\ HeaderTable[h].cred = <<u, Password(u)>>

\* alice's cookie and bob's header were answered after each other, each with
\* its own account, each cache holding the one entry.
C29_Witness ==
    \E r1 \in CookieReturned, r2 \in BasicReturned :
        /\ r1 \in req[r2].prior
        /\ Last(r1).user.IsAuthenticated /\ Last(r1).user.Username = "alice"
        /\ Last(r2).user.IsAuthenticated /\ Last(r2).user.Username = "bob"
        /\ DOMAIN cache = {"alice"}
        /\ DOMAIN basicAuthCache = {"Basic Ym9iOmh1bnRlcjI="}

=============================================================================
